---- MODULE Spec2Model ----
(***************************************************************************)
(* wato787/go-todo: an in-memory Todo store served over HTTP.              *)
(* src/main.go holds two variants of the same service:                     *)
(*   "mux" (lines 1-163):   gorilla/mux handlers that own the map and one   *)
(*                          sync.Mutex held for the whole handler;          *)
(*   "gin" (lines 164-384): gin handlers in front of a TodoRepository       *)
(*                          guarded by a sync.RWMutex.                      *)
(* Every request is served by its own goroutine (a thread here); each      *)
(* action below is one step of one handler, cut at the accesses to the     *)
(* shared map, the shared counter and the lock.                            *)
(***************************************************************************)
EXTENDS Integers, Sequences, FiniteSets

\* ---------------------------------------------------------------- bounds
MaxCalls == 3
MaxID == 2
MaxTime == 2

\* ------------------------------------------------------ program constants
StatusOK == 200
StatusCreated == 201
StatusNoContent == 204
StatusBadRequest == 400
StatusNotFound == 404
FirstID == 1
ZeroTime == 0

\* Two request goroutines contend for the lock.
Threads == {1, 2}
Variants == {"mux", "gin"}
Times == 1..MaxTime
\* An id and a timestamp a caller may put in a request body; the server never
\* issues either of them.
JunkID == MaxCalls + 2
JunkTime == MaxTime + 1

\* ------------------------------------------------------------------ data
\* type Todo struct: the mux variant has no UpdatedAt (kept at ZeroTime here).
Todo(id, title, completed, createdAt, updatedAt) ==
  [id |-> id, title |-> title, completed |-> completed,
   createdAt |-> createdAt, updatedAt |-> updatedAt]

ZeroTodo == Todo(0, "", FALSE, ZeroTime, ZeroTime)

\* A request body as the JSON decoder sees it: malformed JSON (valid = FALSE),
\* or an object whose fields fill a Todo (absent fields are the zero value).
Body(valid, title, completed, forged) ==
  [valid |-> valid,
   todo |-> Todo(IF forged THEN JunkID ELSE 0, title, completed,
                 IF forged THEN JunkTime ELSE ZeroTime,
                 IF forged THEN JunkTime ELSE ZeroTime)]

BadJSON == Body(FALSE, "", FALSE, FALSE)

\* The bodies clients send: malformed JSON; a plain new task; a finished task
\* whose sender also forges the server's fields; and a body with no title.
Bodies ==
  {BadJSON,
   Body(TRUE, "a", FALSE, FALSE),
   Body(TRUE, "b", TRUE, TRUE),
   Body(TRUE, "", TRUE, FALSE)}

\* The {id} path parameter is text: a sequence of characters.
Digit == <<"0", "1", "2", "3", "4", "5", "6", "7", "8", "9">>

RECURSIVE Itoa(_)
Itoa(n) == IF n < 10 THEN <<Digit[n + 1]>> ELSE Itoa(n \div 10) \o <<Digit[(n % 10) + 1]>>

PathParams == {<<"x">>} \cup {Itoa(n) : n \in 1..MaxID}

\* Path parameters at the edges of the parsers: 0, -1, 2^32 and 2^63.
EdgePathParams ==
  {<<"0">>,
   <<"-", "1">>,
   <<"4","2","9","4","9","6","7","2","9","6">>,
   <<"9","2","2","3","3","7","2","0","3","6","8","5","4","7","7","5","8","0","8">>}

IsDigit(c) == \E d \in 1..10 : Digit[d] = c

DigitVal(c) == (CHOOSE d \in 1..10 : Digit[d] = c) - 1

AllDigits(s) == Len(s) > 0 /\ \A i \in 1..Len(s) : IsDigit(s[i])

RECURSIVE StripZeros(_)
StripZeros(s) == IF Len(s) > 1 /\ s[1] = "0" THEN StripZeros(Tail(s)) ELSE s

RECURSIVE DigitsVal(_)
DigitsVal(s) ==
  IF s = <<>> THEN 0
  ELSE DigitsVal(SubSeq(s, 1, Len(s) - 1)) * 10 + DigitVal(s[Len(s)])

\* Numbers are compared as digit strings, so that the 32 and 64 bit limits of
\* the parsers are exact whatever the width of TLC's integers.
RECURSIVE LexLeq(_, _)
LexLeq(a, b) ==
  IF a = <<>> THEN TRUE
  ELSE IF DigitVal(a[1]) # DigitVal(b[1]) THEN DigitVal(a[1]) < DigitVal(b[1])
  ELSE LexLeq(Tail(a), Tail(b))

AtMost(digits, max) ==
  LET z == StripZeros(digits)
  IN  Len(z) < Len(max) \/ (Len(z) = Len(max) /\ LexLeq(z, max))

MaxInt64 == <<"9","2","2","3","3","7","2","0","3","6","8","5","4","7","7","5","8","0","7">>
MinInt64 == <<"9","2","2","3","3","7","2","0","3","6","8","5","4","7","7","5","8","0","8">>
MaxUint32 == <<"4","2","9","4","9","6","7","2","9","5">>

\* The value of a digit string; every value of ten digits or more stands for
\* one id beyond any the bounded store can hold.
Huge == 10 ^ 9

Value(digits) ==
  LET z == StripZeros(digits)
  IN  IF Len(z) <= 9 THEN DigitsVal(z) ELSE Huge

\* strconv.Atoi: an optional sign, then decimal digits, within the int range.
Atoi(s) ==
  LET signed == Len(s) > 0 /\ s[1] \in {"+", "-"}
      neg == signed /\ s[1] = "-"
      digits == IF signed THEN Tail(s) ELSE s
  IN  IF AllDigits(digits) /\ AtMost(digits, IF neg THEN MinInt64 ELSE MaxInt64)
      THEN [ok |-> TRUE, val |-> IF neg THEN 0 - Value(digits) ELSE Value(digits)]
      ELSE [ok |-> FALSE, val |-> 0]

\* strconv.ParseUint(s, 10, 32): decimal digits only, at most 2^32 - 1.
ParseUint_Signed(s) == Atoi(s)

ParseUint(s) ==
  IF AllDigits(s) /\ AtMost(s, MaxUint32)
  THEN [ok |-> TRUE, val |-> Value(s)]
  ELSE [ok |-> FALSE, val |-> 0]

\* `binding:"required"` on Title (gin's ShouldBindJSON): the JSON must parse
\* and the title must not be the zero value.
ShouldBindJSON_NotRequired(b) == b.valid

ShouldBindJSON(b) == b.valid /\ b.todo.title # ""

\* json.NewDecoder(r.Body).Decode: fails on malformed JSON only.
Decode(b) == b.valid

\* ----------------------------------------------------------------- state
VARIABLES
  variant,    \* which of the two programs of src/main.go runs
  paths,      \* the {id} path parameters clients send in this run
  todos,      \* the map: id -> Todo
  nextID,     \* the id counter
  now,        \* the wall clock time.Now() reads
  writers,    \* the thread holding the lock exclusively (a set of at most one)
  readers,    \* the threads holding the RWMutex for reading
  pc,         \* where each thread is in its handler
  op,         \* the request each thread serves: kind, path parameter, body
  loc,        \* each handler's local variables
  res,        \* the response each handler has written
  calls,      \* requests started so far (bounded by MaxCalls)
  committed,  \* history: the store as of the last release of the exclusive lock
  pre,        \* history: per thread, the committed store when it took the lock
  issued,     \* history: the ids Create has returned, in order
  createResp, \* history: id -> the record the Create of that id returned
  touched,    \* history: ids some Update or Delete has written
  deleted,    \* history: ids some Delete has removed
  maxDone,    \* history: greatest id of a Create that has returned to its caller
  floor,      \* history: per thread, maxDone when its current call started
  acquired    \* history: per thread, the lock acquisitions of its current call

vars ==
  <<variant, paths, todos, nextID, now, writers, readers, pc, op, loc, res, calls,
    committed, pre, issued, createResp, touched, deleted, maxDone, floor,
    acquired>>

hist == <<issued, createResp, touched, deleted, maxDone, floor, acquired>>

Kinds == {"list", "create", "get", "update", "delete"}

NoOp == [kind |-> "none", path |-> <<>>, body |-> BadJSON]

NoLoc == [id |-> 0, todo |-> ZeroTodo, existing |-> ZeroTodo, ptrs |-> {}, t |-> ZeroTime]

NoRes == [status |-> 0, todo |-> ZeroTodo, list |-> {}]

\* make(map[..]), m[k] = v, delete(m, k), and the values of a map.
EmptyMap == [i \in {} |-> ZeroTodo]

Put_Alone(m, k, v) == [i \in {k} |-> v]

Put(m, k, v) == [i \in DOMAIN m \cup {k} |-> IF i = k THEN v ELSE m[i]]

Del_Kept(m, k) == m

Del(m, k) == [i \in DOMAIN m \ {k} |-> m[i]]

Values(m) == {m[i] : i \in DOMAIN m}

Max(a, b) == IF a >= b THEN a ELSE b

NoStore == [todos |-> EmptyMap, nextID |-> FirstID]

Store == [todos |-> todos, nextID |-> nextID]

Response(status, todo, list) == [status |-> status, todo |-> todo, list |-> list]

\* time.Now(): the clock never runs backwards; two reads may see the same time.
Now == {t \in Times : t >= now /\ t <= now + 1}

\* NewTodoHandler / NewTodoRepository, and an idle pool of request goroutines.
Start ==
  /\ variant \in Variants
  /\ todos = EmptyMap
  /\ nextID = FirstID
  /\ now = 1
  /\ writers = {}
  /\ readers = {}
  /\ pc = [t \in Threads |-> "idle"]
  /\ op = [t \in Threads |-> NoOp]
  /\ loc = [t \in Threads |-> NoLoc]
  /\ res = [t \in Threads |-> NoRes]
  /\ calls = 0
  /\ committed = NoStore
  /\ pre = [t \in Threads |-> NoStore]
  /\ issued = <<>>
  /\ createResp = EmptyMap
  /\ touched = {}
  /\ deleted = {}
  /\ maxDone = 0
  /\ floor = [t \in Threads |-> 0]
  /\ acquired = [t \in Threads |-> 0]

\* Clients that address records by the ids the store issues, or by no number.
Init == paths = PathParams /\ Start

\* Clients that also send the edge cases of the id parsers.
EdgeInit == paths = PathParams \cup EdgePathParams /\ Start

\* ---------------------------------------------------------------- locks
\* sync.Mutex.Lock and sync.RWMutex.Lock: no other holder of any kind.
CanLock_NoMutex == TRUE

CanLock == writers = {} /\ readers = {}

\* sync.RWMutex.RLock: no exclusive holder.
CanRLock == writers = {}

\* Unlock / RUnlock, deferred in every function that locks: thread t leaves
\* the holders.
Release_Leaked(holders, t) == holders

Release(holders, t) == holders \ {t}

\* ------------------------------------------------- the code's expressions
\* todo.ID = h.nextID / todo.ID = r.nextID
AssignID_Reuse == Cardinality(DOMAIN todos) + 1

AssignID == nextID

\* h.nextID++ / r.nextID++
IncrID_Forgotten(n) == n

IncrID_Twice(n) == n + 2

IncrID(n) == n + 1

\* _, ok := h.todos[id]; if !ok / if _, exists := r.todos[id]; !exists
Missing_Unchecked(id) == FALSE

Missing(id) == id \notin DOMAIN todos

\* todo, exists := r.todos[id] (FindByID), the value read when it exists
Lookup_Zero(id) == ZeroTodo

Lookup(id) == todos[id]

\* Update's changes to its copy of the record (gin): Title when non-empty,
\* Completed, UpdatedAt.
Modify_Replace(existing, in, tm) == [in EXCEPT !.updatedAt = tm]

Modify_Stale(existing, in, tm) ==
  [existing EXCEPT !.title = IF in.title # "" THEN in.title ELSE @,
                   !.completed = in.completed]

Modify(existing, in, tm) ==
  [existing EXCEPT !.title = IF in.title # "" THEN in.title ELSE @,
                   !.completed = in.completed,
                   !.updatedAt = tm]

\* The mux handlers decode into their own Todo type, which has no UpdatedAt.
MuxDecoded_Whole(b) == b.todo

MuxDecoded(b) == [b.todo EXCEPT !.updatedAt = ZeroTime]

\* ---------------------------------------------------------------- calls
\* net/http starts a goroutine per request and routes it to a handler.
Call(t) ==
  /\ pc[t] = "idle"
  /\ calls < MaxCalls
  /\ \E k \in Kinds :
       op' = [op EXCEPT ![t] = [NoOp EXCEPT !.kind = k]]
  /\ pc' = [pc EXCEPT ![t] = IF variant = "mux" THEN "lock" ELSE "handler"]
  /\ calls' = calls + 1
  /\ floor' = [floor EXCEPT ![t] = maxDone]
  /\ UNCHANGED <<variant, paths, todos, nextID, now, writers, readers, loc, res,
                 committed, pre, issued, createResp, touched, deleted, maxDone,
                 acquired>>

\* The handler has returned and its deferred calls have run: the response is
\* the caller's.
Return(t) ==
  /\ pc[t] = "ret"
  /\ pc' = [pc EXCEPT ![t] = "idle"]
  /\ maxDone' = IF op[t].kind = "create" /\ res[t].status = StatusCreated
                THEN Max(maxDone, res[t].todo.id) ELSE maxDone
  /\ op' = [op EXCEPT ![t] = NoOp]
  /\ loc' = [loc EXCEPT ![t] = NoLoc]
  /\ res' = [res EXCEPT ![t] = NoRes]
  /\ floor' = [floor EXCEPT ![t] = 0]
  /\ acquired' = [acquired EXCEPT ![t] = 0]
  /\ UNCHANGED <<variant, paths, todos, nextID, now, writers, readers, calls,
                 committed, pre, issued, createResp, touched, deleted>>

\* What a step of thread t inside a handler leaves alone unless it says so.
Goto(t, label) == pc' = [pc EXCEPT ![t] = label]

Reply(t, status, todo, list) ==
  res' = [res EXCEPT ![t] = Response(status, todo, list)]

\* ============================================================ mux variant
MuxFirst(k) ==
  CASE k = "list" -> "list1"
    [] k = "create" -> "create1"
    [] k = "get" -> "get1"
    [] k = "update" -> "update1"
    [] k = "delete" -> "delete1"

\* h.Lock() at the top of every handler
MuxLock(t) ==
  /\ variant = "mux"
  /\ pc[t] = "lock"
  /\ CanLock
  /\ writers' = {t}
  /\ pre' = [pre EXCEPT ![t] = committed]
  /\ acquired' = [acquired EXCEPT ![t] = @ + 1]
  /\ Goto(t, MuxFirst(op[t].kind))
  /\ UNCHANGED <<variant, paths, todos, nextID, now, readers, op, loc, res, calls,
                 committed, issued, createResp, touched, deleted, maxDone, floor>>

\* defer h.Unlock()
MuxUnlock(t) ==
  /\ variant = "mux"
  /\ pc[t] = "unlock"
  /\ writers' = Release(writers, t)
  /\ committed' = Store
  /\ Goto(t, "ret")
  /\ op' = [op EXCEPT ![t] = [NoOp EXCEPT !.kind = op[t].kind]]
  /\ loc' = [loc EXCEPT ![t] = NoLoc]
  /\ pre' = [pre EXCEPT ![t] = NoStore]
  /\ UNCHANGED <<variant, paths, todos, nextID, now, readers, res, calls,
                 hist>>

\* ListTodos: the slice of pointers to the records
MuxListTodos_Collect(t) ==
  /\ variant = "mux"
  /\ pc[t] = "list1"
  /\ loc' = [loc EXCEPT ![t].ptrs = DOMAIN todos]
  /\ Goto(t, "list2")
  /\ UNCHANGED <<variant, paths, todos, nextID, now, writers, readers, op, res, calls,
                 committed, pre, hist>>

\* ListTodos: the encoder reads every record through its pointer
MuxListTodos_Encode(t) ==
  /\ variant = "mux"
  /\ pc[t] = "list2"
  /\ Reply(t, StatusOK, ZeroTodo, {todos[i] : i \in loc[t].ptrs \cap DOMAIN todos})
  /\ Goto(t, "unlock")
  /\ UNCHANGED <<variant, paths, todos, nextID, now, writers, readers, op, loc, calls,
                 committed, pre, hist>>

\* CreateTodo: the body is read and decoded
MuxCreateTodo_Decode(t) ==
  /\ variant = "mux"
  /\ pc[t] = "create1"
  /\ \E b \in Bodies :
       /\ op' = [op EXCEPT ![t].body = b]
       /\ \/ /\ ~Decode(b)
             /\ Reply(t, StatusBadRequest, ZeroTodo, {})
             /\ Goto(t, "unlock")
             /\ UNCHANGED loc
          \/ /\ Decode(b)
             /\ loc' = [loc EXCEPT ![t].todo = MuxDecoded(b)]
             /\ Goto(t, "create2")
             /\ UNCHANGED res
  /\ UNCHANGED <<variant, paths, todos, nextID, now, writers, readers, calls,
                 committed, pre, hist>>

\* CreateTodo: todo.ID = h.nextID; todo.CreatedAt = time.Now(); h.todos[todo.ID] = &todo
MuxCreateTodo_Store(t) ==
  /\ variant = "mux"
  /\ pc[t] = "create2"
  /\ \E tm \in Now :
       LET todo == [loc[t].todo EXCEPT !.id = AssignID, !.createdAt = tm]
       IN  /\ now' = tm
           /\ loc' = [loc EXCEPT ![t].todo = todo, ![t].id = todo.id, ![t].t = tm]
           /\ todos' = Put(todos, todo.id, todo)
  /\ Goto(t, "create3")
  /\ UNCHANGED <<variant, paths, nextID, writers, readers, op, res, calls,
                 committed, pre, hist>>

\* CreateTodo: h.nextID++, then the response is the local todo
MuxCreateTodo_Incr(t) ==
  /\ variant = "mux"
  /\ pc[t] = "create3"
  /\ nextID' = IncrID(nextID)
  /\ Reply(t, StatusCreated, loc[t].todo, {})
  /\ issued' = Append(issued, loc[t].todo.id)
  /\ createResp' = Put(createResp, loc[t].todo.id, loc[t].todo)
  /\ Goto(t, "unlock")
  /\ UNCHANGED <<variant, paths, todos, now, writers, readers, op, loc, calls,
                 committed, pre, touched, deleted, maxDone, floor, acquired>>

\* GetTodo / UpdateTodo / DeleteTodo: strconv.Atoi(vars["id"]), then the
\* lookup in the map. `found` is where the handler goes on.
MuxFind(t, found) ==
  \E p \in paths :
    /\ op' = [op EXCEPT ![t].path = p]
    /\ \/ /\ ~Atoi(p).ok
          /\ Reply(t, StatusBadRequest, ZeroTodo, {})
          /\ Goto(t, "unlock")
          /\ UNCHANGED loc
       \/ /\ Atoi(p).ok
          /\ Missing(Atoi(p).val)
          /\ Reply(t, StatusNotFound, ZeroTodo, {})
          /\ Goto(t, "unlock")
          /\ loc' = [loc EXCEPT ![t].id = Atoi(p).val]
       \/ /\ Atoi(p).ok
          /\ ~Missing(Atoi(p).val)
          /\ loc' = [loc EXCEPT ![t].id = Atoi(p).val]
          /\ Goto(t, found)
          /\ UNCHANGED res

MuxGetTodo_Find(t) ==
  /\ variant = "mux"
  /\ pc[t] = "get1"
  /\ MuxFind(t, "get2")
  /\ UNCHANGED <<variant, paths, todos, nextID, now, writers, readers, calls,
                 committed, pre, hist>>

\* GetTodo: the encoder reads the record through its pointer
MuxGetTodo_Encode(t) ==
  /\ variant = "mux"
  /\ pc[t] = "get2"
  /\ Reply(t, StatusOK, IF loc[t].id \in DOMAIN todos THEN Lookup(loc[t].id) ELSE ZeroTodo, {})
  /\ Goto(t, "unlock")
  /\ UNCHANGED <<variant, paths, todos, nextID, now, writers, readers, op, loc, calls,
                 committed, pre, hist>>

MuxUpdateTodo_Find(t) ==
  /\ variant = "mux"
  /\ pc[t] = "update1"
  /\ MuxFind(t, "update2")
  /\ UNCHANGED <<variant, paths, todos, nextID, now, writers, readers, calls,
                 committed, pre, hist>>

\* UpdateTodo: the body is read and decoded
MuxUpdateTodo_Decode(t) ==
  /\ variant = "mux"
  /\ pc[t] = "update2"
  /\ \E b \in Bodies :
       /\ op' = [op EXCEPT ![t].body = b]
       /\ \/ /\ ~Decode(b)
             /\ Reply(t, StatusBadRequest, ZeroTodo, {})
             /\ Goto(t, "unlock")
             /\ UNCHANGED loc
          \/ /\ Decode(b)
             /\ loc' = [loc EXCEPT ![t].todo = MuxDecoded(b)]
             /\ Goto(t, "update3")
             /\ UNCHANGED res
  /\ UNCHANGED <<variant, paths, todos, nextID, now, writers, readers, calls,
                 committed, pre, hist>>

\* A write through the pointer `todo`, to the record the map holds under id.
SetTitle(id, title) ==
  IF id \in DOMAIN todos THEN Put(todos, id, [todos[id] EXCEPT !.title = title]) ELSE todos

SetCompleted(id, completed) ==
  IF id \in DOMAIN todos
  THEN Put(todos, id, [todos[id] EXCEPT !.completed = completed]) ELSE todos

\* UpdateTodo: todo.Title = updatedTodo.Title
MuxUpdateTodo_Title(t) ==
  /\ variant = "mux"
  /\ pc[t] = "update3"
  /\ todos' = SetTitle(loc[t].id, loc[t].todo.title)
  /\ touched' = touched \cup {loc[t].id}
  /\ Goto(t, "update4")
  /\ UNCHANGED <<variant, paths, nextID, now, writers, readers, op, loc, res, calls,
                 committed, pre, issued, createResp, deleted, maxDone, floor,
                 acquired>>

\* UpdateTodo: todo.Completed = updatedTodo.Completed
MuxUpdateTodo_Completed(t) ==
  /\ variant = "mux"
  /\ pc[t] = "update4"
  /\ todos' = SetCompleted(loc[t].id, loc[t].todo.completed)
  /\ Goto(t, "update5")
  /\ UNCHANGED <<variant, paths, nextID, now, writers, readers, op, loc, res, calls,
                 committed, pre, hist>>

\* UpdateTodo: the encoder reads the record through its pointer
MuxUpdateTodo_Encode(t) ==
  /\ variant = "mux"
  /\ pc[t] = "update5"
  /\ Reply(t, StatusOK, IF loc[t].id \in DOMAIN todos THEN todos[loc[t].id] ELSE ZeroTodo, {})
  /\ Goto(t, "unlock")
  /\ UNCHANGED <<variant, paths, todos, nextID, now, writers, readers, op, loc, calls,
                 committed, pre, hist>>

\* DeleteTodo: the path parameter and the existence check
MuxDeleteTodo_Find(t) ==
  /\ variant = "mux"
  /\ pc[t] = "delete1"
  /\ MuxFind(t, "delete2")
  /\ UNCHANGED <<variant, paths, todos, nextID, now, writers, readers, calls,
                 committed, pre, hist>>

\* DeleteTodo: delete(h.todos, id); 204
MuxDeleteTodo_Delete(t) ==
  /\ variant = "mux"
  /\ pc[t] = "delete2"
  /\ todos' = Del(todos, loc[t].id)
  /\ touched' = touched \cup {loc[t].id}
  /\ deleted' = deleted \cup {loc[t].id}
  /\ Reply(t, StatusNoContent, ZeroTodo, {})
  /\ Goto(t, "unlock")
  /\ UNCHANGED <<variant, paths, nextID, now, writers, readers, op, loc, calls,
                 committed, pre, issued, createResp, maxDone, floor, acquired>>

\* ============================================================ gin variant
\* GetAllTodos: h.repo.FindAll()
GinGetAllTodos(t) ==
  /\ variant = "gin"
  /\ pc[t] = "handler"
  /\ op[t].kind = "list"
  /\ Goto(t, "rlock")
  /\ UNCHANGED <<variant, paths, todos, nextID, now, writers, readers, op, loc, res,
                 calls, committed, pre, hist>>

\* GetTodo / DeleteTodo: strconv.ParseUint(c.Param("id"), 10, 32), 400 when it
\* fails, else the repository call at `lock`.
GinParse(t, lock) ==
  \E p \in paths :
    /\ op' = [op EXCEPT ![t].path = p]
    /\ \/ /\ ~ParseUint(p).ok
          /\ Reply(t, StatusBadRequest, ZeroTodo, {})
          /\ Goto(t, "ret")
          /\ UNCHANGED loc
       \/ /\ ParseUint(p).ok
          /\ loc' = [loc EXCEPT ![t].id = ParseUint(p).val]
          /\ Goto(t, lock)
          /\ UNCHANGED res

GinGetTodo(t) ==
  /\ variant = "gin"
  /\ pc[t] = "handler"
  /\ op[t].kind = "get"
  /\ GinParse(t, "rlock")
  /\ UNCHANGED <<variant, paths, todos, nextID, now, writers, readers, calls,
                 committed, pre, hist>>

GinDeleteTodo(t) ==
  /\ variant = "gin"
  /\ pc[t] = "handler"
  /\ op[t].kind = "delete"
  /\ GinParse(t, "wlock")
  /\ UNCHANGED <<variant, paths, todos, nextID, now, writers, readers, calls,
                 committed, pre, hist>>

\* CreateTodo: c.ShouldBindJSON(&todo), 400 when it fails, else h.repo.Create
GinCreateTodo(t) ==
  /\ variant = "gin"
  /\ pc[t] = "handler"
  /\ op[t].kind = "create"
  /\ \E b \in Bodies :
       /\ op' = [op EXCEPT ![t].body = b]
       /\ \/ /\ ~ShouldBindJSON(b)
             /\ Reply(t, StatusBadRequest, ZeroTodo, {})
             /\ Goto(t, "ret")
             /\ UNCHANGED loc
          \/ /\ ShouldBindJSON(b)
             /\ loc' = [loc EXCEPT ![t].todo = b.todo]
             /\ Goto(t, "wlock")
             /\ UNCHANGED res
  /\ UNCHANGED <<variant, paths, todos, nextID, now, writers, readers, calls,
                 committed, pre, hist>>

\* UpdateTodo: the path parameter, then the body, then h.repo.Update
GinUpdateTodo(t) ==
  /\ variant = "gin"
  /\ pc[t] = "handler"
  /\ op[t].kind = "update"
  /\ \E p \in paths, b \in Bodies :
       /\ op' = [op EXCEPT ![t].path = p, ![t].body = b]
       /\ \/ /\ ~ParseUint(p).ok
             /\ Reply(t, StatusBadRequest, ZeroTodo, {})
             /\ Goto(t, "ret")
             /\ UNCHANGED loc
          \/ /\ ParseUint(p).ok
             /\ ~ShouldBindJSON(b)
             /\ Reply(t, StatusBadRequest, ZeroTodo, {})
             /\ Goto(t, "ret")
             /\ loc' = [loc EXCEPT ![t].id = ParseUint(p).val]
          \/ /\ ParseUint(p).ok
             /\ ShouldBindJSON(b)
             /\ loc' = [loc EXCEPT ![t].id = ParseUint(p).val, ![t].todo = b.todo]
             /\ Goto(t, "wlock")
             /\ UNCHANGED res
  /\ UNCHANGED <<variant, paths, todos, nextID, now, writers, readers, calls,
                 committed, pre, hist>>

GinFirst(k) ==
  CASE k = "list" -> "list1"
    [] k = "create" -> "create1"
    [] k = "get" -> "get1"
    [] k = "update" -> "update1"
    [] k = "delete" -> "delete1"

\* r.mutex.RLock() in FindAll and FindByID
RLock(t) ==
  /\ variant = "gin"
  /\ pc[t] = "rlock"
  /\ CanRLock
  /\ readers' = readers \cup {t}
  /\ pre' = [pre EXCEPT ![t] = committed]
  /\ acquired' = [acquired EXCEPT ![t] = @ + 1]
  /\ Goto(t, GinFirst(op[t].kind))
  /\ UNCHANGED <<variant, paths, todos, nextID, now, writers, op, loc, res, calls,
                 committed, issued, createResp, touched, deleted, maxDone, floor>>

\* defer r.mutex.RUnlock()
RUnlock(t) ==
  /\ variant = "gin"
  /\ pc[t] = "runlock"
  /\ readers' = Release(readers, t)
  /\ Goto(t, "ret")
  /\ op' = [op EXCEPT ![t] = [NoOp EXCEPT !.kind = op[t].kind]]
  /\ loc' = [loc EXCEPT ![t] = NoLoc]
  /\ pre' = [pre EXCEPT ![t] = NoStore]
  /\ UNCHANGED <<variant, paths, todos, nextID, now, writers, res, calls,
                 committed, hist>>

\* r.mutex.Lock() in Create, Update and Delete
Lock(t) ==
  /\ variant = "gin"
  /\ pc[t] = "wlock"
  /\ CanLock
  /\ writers' = {t}
  /\ pre' = [pre EXCEPT ![t] = committed]
  /\ acquired' = [acquired EXCEPT ![t] = @ + 1]
  /\ Goto(t, GinFirst(op[t].kind))
  /\ UNCHANGED <<variant, paths, todos, nextID, now, readers, op, loc, res, calls,
                 committed, issued, createResp, touched, deleted, maxDone, floor>>

\* defer r.mutex.Unlock()
Unlock(t) ==
  /\ variant = "gin"
  /\ pc[t] = "unlock"
  /\ writers' = Release(writers, t)
  /\ committed' = Store
  /\ Goto(t, "ret")
  /\ op' = [op EXCEPT ![t] = [NoOp EXCEPT !.kind = op[t].kind]]
  /\ loc' = [loc EXCEPT ![t] = NoLoc]
  /\ pre' = [pre EXCEPT ![t] = NoStore]
  /\ UNCHANGED <<variant, paths, todos, nextID, now, readers, res, calls,
                 hist>>

\* FindAll: every record is copied into the slice the handler encodes
FindAll(t) ==
  /\ variant = "gin"
  /\ pc[t] = "list1"
  /\ Reply(t, StatusOK, ZeroTodo, Values(todos))
  /\ Goto(t, "runlock")
  /\ UNCHANGED <<variant, paths, todos, nextID, now, writers, readers, op, loc, calls,
                 committed, pre, hist>>

\* FindByID: the record's copy, or "todo not found" (404 in GetTodo)
FindByID(t) ==
  /\ variant = "gin"
  /\ pc[t] = "get1"
  /\ \/ /\ Missing(loc[t].id)
        /\ Reply(t, StatusNotFound, ZeroTodo, {})
     \/ /\ ~Missing(loc[t].id)
        /\ Reply(t, StatusOK, IF loc[t].id \in DOMAIN todos THEN Lookup(loc[t].id) ELSE ZeroTodo, {})
  /\ Goto(t, "runlock")
  /\ UNCHANGED <<variant, paths, todos, nextID, now, writers, readers, op, loc, calls,
                 committed, pre, hist>>

\* Create: now := time.Now()
Create_Now(t) ==
  /\ variant = "gin"
  /\ pc[t] = "create1"
  /\ \E tm \in Now :
       /\ now' = tm
       /\ loc' = [loc EXCEPT ![t].t = tm]
  /\ Goto(t, "create2")
  /\ UNCHANGED <<variant, paths, todos, nextID, writers, readers, op, res, calls,
                 committed, pre, hist>>

\* Create: todo.ID = r.nextID; the two timestamps; r.todos[todo.ID] = todo
Create_Store(t) ==
  /\ variant = "gin"
  /\ pc[t] = "create2"
  /\ LET todo == [loc[t].todo EXCEPT !.id = AssignID,
                                     !.createdAt = loc[t].t,
                                     !.updatedAt = loc[t].t]
     IN  /\ loc' = [loc EXCEPT ![t].todo = todo, ![t].id = todo.id]
         /\ todos' = Put(todos, todo.id, todo)
  /\ Goto(t, "create3")
  /\ UNCHANGED <<variant, paths, nextID, now, writers, readers, op, res, calls,
                 committed, pre, hist>>

\* Create: r.nextID++; return todo (201 in CreateTodo)
Create_Incr(t) ==
  /\ variant = "gin"
  /\ pc[t] = "create3"
  /\ nextID' = IncrID(nextID)
  /\ Reply(t, StatusCreated, loc[t].todo, {})
  /\ issued' = Append(issued, loc[t].todo.id)
  /\ createResp' = Put(createResp, loc[t].todo.id, loc[t].todo)
  /\ Goto(t, "unlock")
  /\ UNCHANGED <<variant, paths, todos, now, writers, readers, op, loc, calls,
                 committed, pre, touched, deleted, maxDone, floor, acquired>>

\* Update: existing, exists := r.todos[id], or "todo not found" (404)
Update_Find(t) ==
  /\ variant = "gin"
  /\ pc[t] = "update1"
  /\ \/ /\ Missing(loc[t].id)
        /\ Reply(t, StatusNotFound, ZeroTodo, {})
        /\ Goto(t, "unlock")
        /\ UNCHANGED loc
     \/ /\ ~Missing(loc[t].id)
        /\ loc' = [loc EXCEPT ![t].existing =
                     IF loc[t].id \in DOMAIN todos THEN todos[loc[t].id] ELSE ZeroTodo]
        /\ Goto(t, "update2")
        /\ UNCHANGED res
  /\ UNCHANGED <<variant, paths, todos, nextID, now, writers, readers, op, calls,
                 committed, pre, hist>>

\* Update: the changes to the copy `existing`, with time.Now()
Update_Modify(t) ==
  /\ variant = "gin"
  /\ pc[t] = "update2"
  /\ \E tm \in Now :
       /\ now' = tm
       /\ loc' = [loc EXCEPT ![t].t = tm,
                              ![t].existing = Modify(loc[t].existing, loc[t].todo, tm)]
  /\ Goto(t, "update3")
  /\ UNCHANGED <<variant, paths, todos, nextID, writers, readers, op, res, calls,
                 committed, pre, hist>>

\* Update: r.todos[id] = existing; return existing (200 in UpdateTodo)
Update_Store(t) ==
  /\ variant = "gin"
  /\ pc[t] = "update3"
  /\ todos' = Put(todos, loc[t].id, loc[t].existing)
  /\ touched' = touched \cup {loc[t].id}
  /\ Reply(t, StatusOK, loc[t].existing, {})
  /\ Goto(t, "unlock")
  /\ UNCHANGED <<variant, paths, nextID, now, writers, readers, op, loc, calls,
                 committed, pre, issued, createResp, deleted, maxDone, floor,
                 acquired>>

\* Delete: the existence check, or "todo not found" (404 in DeleteTodo)
Delete_Find(t) ==
  /\ variant = "gin"
  /\ pc[t] = "delete1"
  /\ \/ /\ Missing(loc[t].id)
        /\ Reply(t, StatusNotFound, ZeroTodo, {})
        /\ Goto(t, "unlock")
     \/ /\ ~Missing(loc[t].id)
        /\ Goto(t, "delete2")
        /\ UNCHANGED res
  /\ UNCHANGED <<variant, paths, todos, nextID, now, writers, readers, op, loc, calls,
                 committed, pre, hist>>

\* Delete: delete(r.todos, id); return nil (204 in DeleteTodo)
Delete_Delete(t) ==
  /\ variant = "gin"
  /\ pc[t] = "delete2"
  /\ todos' = Del(todos, loc[t].id)
  /\ touched' = touched \cup {loc[t].id}
  /\ deleted' = deleted \cup {loc[t].id}
  /\ Reply(t, StatusNoContent, ZeroTodo, {})
  /\ Goto(t, "unlock")
  /\ UNCHANGED <<variant, paths, nextID, now, writers, readers, op, loc, calls,
                 committed, pre, issued, createResp, maxDone, floor, acquired>>

\* ------------------------------------------------- one call, run alone
\* What each handler does to a store s when nothing else runs: the store it
\* leaves and the response it writes. tm is the time its time.Now() returns.
Outcome(s, status, todo, list) == [store |-> s, res |-> Response(status, todo, list)]

SerialMux(k, path, body, s, tm) ==
  LET id == Atoi(path).val
      absent == id \notin DOMAIN s.todos
  IN  CASE k = "list" -> Outcome(s, StatusOK, ZeroTodo, Values(s.todos))
        [] k = "create" ->
             IF ~Decode(body) THEN Outcome(s, StatusBadRequest, ZeroTodo, {})
             ELSE LET todo == [MuxDecoded(body) EXCEPT !.id = s.nextID, !.createdAt = tm]
                  IN  Outcome([todos |-> Put(s.todos, s.nextID, todo), nextID |-> s.nextID + 1],
                              StatusCreated, todo, {})
        [] k = "get" ->
             IF ~Atoi(path).ok THEN Outcome(s, StatusBadRequest, ZeroTodo, {})
             ELSE IF absent THEN Outcome(s, StatusNotFound, ZeroTodo, {})
             ELSE Outcome(s, StatusOK, s.todos[id], {})
        [] k = "update" ->
             IF ~Atoi(path).ok THEN Outcome(s, StatusBadRequest, ZeroTodo, {})
             ELSE IF absent THEN Outcome(s, StatusNotFound, ZeroTodo, {})
             ELSE IF ~Decode(body) THEN Outcome(s, StatusBadRequest, ZeroTodo, {})
             ELSE LET todo == [s.todos[id] EXCEPT !.title = body.todo.title,
                                                  !.completed = body.todo.completed]
                  IN  Outcome([s EXCEPT !.todos = Put(s.todos, id, todo)], StatusOK, todo, {})
        [] k = "delete" ->
             IF ~Atoi(path).ok THEN Outcome(s, StatusBadRequest, ZeroTodo, {})
             ELSE IF absent THEN Outcome(s, StatusNotFound, ZeroTodo, {})
             ELSE Outcome([s EXCEPT !.todos = Del(s.todos, id)], StatusNoContent, ZeroTodo, {})

\* The repository's methods, with the status the gin handler gives their
\* result; the handler has already parsed the id and bound the body.
SerialGin(k, path, body, s, tm) ==
  LET id == ParseUint(path).val
      absent == id \notin DOMAIN s.todos
  IN  CASE k = "list" -> Outcome(s, StatusOK, ZeroTodo, Values(s.todos))
        [] k = "create" ->
             LET todo == [body.todo EXCEPT !.id = s.nextID, !.createdAt = tm, !.updatedAt = tm]
             IN  Outcome([todos |-> Put(s.todos, s.nextID, todo), nextID |-> s.nextID + 1],
                         StatusCreated, todo, {})
        [] k = "get" ->
             IF absent THEN Outcome(s, StatusNotFound, ZeroTodo, {})
             ELSE Outcome(s, StatusOK, s.todos[id], {})
        [] k = "update" ->
             IF absent THEN Outcome(s, StatusNotFound, ZeroTodo, {})
             ELSE LET old == s.todos[id]
                      todo == [old EXCEPT
                                 !.title = IF body.todo.title # "" THEN body.todo.title ELSE @,
                                 !.completed = body.todo.completed,
                                 !.updatedAt = tm]
                  IN  Outcome([s EXCEPT !.todos = Put(s.todos, id, todo)], StatusOK, todo, {})
        [] k = "delete" ->
             IF absent THEN Outcome(s, StatusNotFound, ZeroTodo, {})
             ELSE Outcome([s EXCEPT !.todos = Del(s.todos, id)], StatusNoContent, ZeroTodo, {})

Serial(v, k, path, body, s, tm) ==
  IF v = "mux" THEN SerialMux(k, path, body, s, tm) ELSE SerialGin(k, path, body, s, tm)

\* ------------------------------------------------------------ the system
Next ==
  \E t \in Threads :
    \/ Call(t)
    \/ Return(t)
    \/ MuxLock(t)
    \/ MuxUnlock(t)
    \/ MuxListTodos_Collect(t)
    \/ MuxListTodos_Encode(t)
    \/ MuxCreateTodo_Decode(t)
    \/ MuxCreateTodo_Store(t)
    \/ MuxCreateTodo_Incr(t)
    \/ MuxGetTodo_Find(t)
    \/ MuxGetTodo_Encode(t)
    \/ MuxUpdateTodo_Find(t)
    \/ MuxUpdateTodo_Decode(t)
    \/ MuxUpdateTodo_Title(t)
    \/ MuxUpdateTodo_Completed(t)
    \/ MuxUpdateTodo_Encode(t)
    \/ MuxDeleteTodo_Find(t)
    \/ MuxDeleteTodo_Delete(t)
    \/ GinGetAllTodos(t)
    \/ GinGetTodo(t)
    \/ GinCreateTodo(t)
    \/ GinUpdateTodo(t)
    \/ GinDeleteTodo(t)
    \/ RLock(t)
    \/ RUnlock(t)
    \/ Lock(t)
    \/ Unlock(t)
    \/ FindAll(t)
    \/ FindByID(t)
    \/ Create_Now(t)
    \/ Create_Store(t)
    \/ Create_Incr(t)
    \/ Update_Find(t)
    \/ Update_Modify(t)
    \/ Update_Store(t)
    \/ Delete_Find(t)
    \/ Delete_Delete(t)

Spec == Init /\ [][Next]_vars

\* ------------------------------------------------------------ scheduling
\* The steps in which a handler reads its request body from the connection:
\* json.NewDecoder(r.Body).Decode in the mux handlers (inside the lock),
\* c.ShouldBindJSON in the gin handlers (before the repository is called).
\* They wait for the client to send the body.
Receive(t) ==
  \/ MuxCreateTodo_Decode(t)
  \/ MuxUpdateTodo_Decode(t)
  \/ GinCreateTodo(t)
  \/ GinUpdateTodo(t)

\* Every other step of a handler: it needs nothing but the processor and,
\* for a lock step, the lock.
Compute(t) ==
  \/ Return(t)
  \/ MuxLock(t)
  \/ MuxUnlock(t)
  \/ MuxListTodos_Collect(t)
  \/ MuxListTodos_Encode(t)
  \/ MuxCreateTodo_Store(t)
  \/ MuxCreateTodo_Incr(t)
  \/ MuxGetTodo_Find(t)
  \/ MuxGetTodo_Encode(t)
  \/ MuxUpdateTodo_Find(t)
  \/ MuxUpdateTodo_Title(t)
  \/ MuxUpdateTodo_Completed(t)
  \/ MuxUpdateTodo_Encode(t)
  \/ MuxDeleteTodo_Find(t)
  \/ MuxDeleteTodo_Delete(t)
  \/ GinGetAllTodos(t)
  \/ GinGetTodo(t)
  \/ GinDeleteTodo(t)
  \/ RLock(t)
  \/ RUnlock(t)
  \/ Lock(t)
  \/ Unlock(t)
  \/ FindAll(t)
  \/ FindByID(t)
  \/ Create_Now(t)
  \/ Create_Store(t)
  \/ Create_Incr(t)
  \/ Update_Find(t)
  \/ Update_Modify(t)
  \/ Update_Store(t)
  \/ Delete_Find(t)
  \/ Delete_Delete(t)

\* The Go scheduler runs every runnable goroutine, and a goroutine blocked in
\* Lock or RLock gets the lock once it stays free. Clients are under no
\* obligation to send requests (Call is not fair). In FairSpec every request
\* that was started is delivered in full; in StallSpec a client may stop
\* sending in the middle of a request, for ever.
FairSpec == Spec /\ \A t \in Threads : WF_vars(Compute(t)) /\ WF_vars(Receive(t))

StallSpec == Spec /\ \A t \in Threads : WF_vars(Compute(t))

EdgeSpec == EdgeInit /\ [][Next]_vars

\* ================================================================ claims
\* The handler of thread t has finished its body and still holds the lock.
AtEnd(t) == pc[t] \in {"unlock", "runlock"}

\* The {id} of thread t's request, once its handler has parsed it.
PathOK(t) ==
  IF variant = "mux" THEN Atoi(op[t].path).ok ELSE ParseUint(op[t].path).ok

PathID(t) ==
  IF variant = "mux" THEN Atoi(op[t].path).val ELSE ParseUint(op[t].path).val

Created(t) == op[t].kind = "create" /\ res[t].status = StatusCreated

\* C1: the ids that successful Create calls return, concurrent or not, are
\* pairwise distinct, and the counter has advanced exactly once per successful
\* Create (seen whenever no writer is inside its critical section).
C1_DistinctIDs ==
  /\ \A i, j \in 1..Len(issued) : i # j => issued[i] # issued[j]
  /\ writers = {} => nextID = FirstID + Len(issued)

\* Two Create calls in flight at once, both answered 201.
C1_Witness ==
  \E t, u \in Threads :
    /\ t # u
    /\ pc[t] = "ret" /\ Created(t)
    /\ pc[u] = "ret" /\ Created(u)

\* C2: the first id assigned is 1, and every id assigned is strictly greater
\* than every id assigned before it, whatever was deleted in between.
C2_NoReuse ==
  /\ Len(issued) > 0 => issued[1] = FirstID
  /\ \A i, j \in 1..Len(issued) : i < j => issued[i] < issued[j]

\* A Create is assigned id 2 after the record with id 1 was deleted.
C2_Witness ==
  \E t \in Threads :
    /\ pc[t] = "create3"
    /\ loc[t].id = 2
    /\ 1 \notin DOMAIN todos

\* C3 as stated: whenever a successful Create returns to its caller, its id is
\* greater than the id of every Create that returned before it.
C3_CompletionOrder ==
  [][\A t \in Threads :
       (pc[t] = "ret" /\ pc'[t] = "idle" /\ Created(t))
         => res[t].todo.id > maxDone]_vars

\* C3 as amended: a successful Create's id is greater than the id of every
\* Create that had returned before this call started.
C3_RealTimeOrder ==
  \A t \in Threads : Created(t) => res[t].todo.id > floor[t]

\* A Create answered 201 that started after another Create had returned.
C3_Witness ==
  \E t \in Threads : Created(t) /\ floor[t] >= FirstID

\* C4: GetByID, Update and Delete of an id the store does not hold (never
\* issued, or deleted) answer NotFound and leave every record and the counter
\* as they were when the call took the lock.
C4_NotFound ==
  \A t \in Threads :
    (/\ AtEnd(t)
     /\ op[t].kind \in {"get", "update", "delete"}
     /\ PathOK(t)
     /\ PathID(t) \notin DOMAIN pre[t].todos)
      => /\ res[t].status = StatusNotFound
         /\ Store = pre[t]

\* An Update or Delete of an id that was issued and has been deleted.
C4_Witness ==
  \E t \in Threads :
    /\ AtEnd(t)
    /\ op[t].kind \in {"update", "delete"}
    /\ PathOK(t)
    /\ PathID(t) \notin DOMAIN pre[t].todos
    /\ PathID(t) < pre[t].nextID
    /\ res[t].status = StatusNotFound

\* C5: a stored record keeps the id and createdAt its Create returned, and so
\* does the record every successful Update returns, whatever the body carries.
C5_Immutable ==
  /\ \A i \in DOMAIN todos \cap DOMAIN createResp :
       /\ todos[i].id = createResp[i].id
       /\ todos[i].createdAt = createResp[i].createdAt
  /\ \A t \in Threads :
       (AtEnd(t) /\ op[t].kind = "update" /\ res[t].status = StatusOK)
         => /\ PathID(t) \in DOMAIN createResp
            /\ res[t].todo.id = createResp[PathID(t)].id
            /\ res[t].todo.createdAt = createResp[PathID(t)].createdAt

\* An Update whose body carries a foreign id and createdAt succeeds, after the
\* clock has moved on from the record's creation.
C5_Witness ==
  \E t \in Threads :
    /\ AtEnd(t) /\ op[t].kind = "update" /\ res[t].status = StatusOK
    /\ op[t].body.todo.id = JunkID
    /\ op[t].body.todo.createdAt = JunkTime
    /\ res[t].todo.createdAt < now

\* The committed store a call of thread t works from: the one it locked, or,
\* outside the lock, the last one committed.
Before(t) == IF t \in writers \cup readers THEN pre[t] ELSE committed

\* The step in which thread t's handler writes its response.
Replies(t) == res[t] = NoRes /\ res'[t] # NoRes

\* C6 as stated: an update of an existing id succeeds in either variant and
\* returns the supplied title when it is non-empty, the stored title when it
\* is empty, and the supplied completed.
C6_UpdateResult ==
  [][\A t \in Threads :
       (/\ Replies(t)
        /\ op'[t].kind = "update"
        /\ op'[t].body.valid
        /\ PathOK(t)'
        /\ PathID(t)' \in DOMAIN Before(t).todos)
         => /\ res'[t].status = StatusOK
            /\ res'[t].todo.title =
                 IF op'[t].body.todo.title # "" THEN op'[t].body.todo.title
                 ELSE Before(t).todos[PathID(t)'].title
            /\ res'[t].todo.completed = op'[t].body.todo.completed]_vars

\* A Create call of thread t, in progress, whose body has an empty title.
EmptyTitleCreate(t) ==
  /\ pc[t] \notin {"idle", "ret"}
  /\ op'[t].kind = "create"
  /\ op'[t].body.valid
  /\ op'[t].body.todo.title = ""

Rejected(t) ==
  /\ todos' = todos
  /\ nextID' = nextID
  /\ res'[t] # NoRes => res'[t].status = StatusBadRequest
  /\ pc'[t] \in {"unlock", "ret"} => res'[t].status = StatusBadRequest

\* C7 as stated: in either variant a Create whose title is empty is answered
\* 400, stores nothing and leaves the counter alone.
C7_EmptyTitleRejected ==
  [][\A t \in Threads : EmptyTitleCreate(t) => Rejected(t)]_vars

\* C7 as amended: the same, of the gin variant only.
C7_GinEmptyTitleRejected ==
  [][\A t \in Threads : (variant = "gin" /\ EmptyTitleCreate(t)) => Rejected(t)]_vars

\* The gin CreateTodo handler has answered 400 to a body with an empty title;
\* one Create has succeeded, and the counter stands where that one left it.
C7_Witness ==
  \E t \in Threads :
    /\ variant = "gin"
    /\ pc[t] = "ret"
    /\ op[t].kind = "create"
    /\ op[t].body.valid /\ op[t].body.todo.title = ""
    /\ res[t].status = StatusBadRequest
    /\ Len(issued) = 1
    /\ nextID = 2

\* C8: a GetByID of an id no Update or Delete has written returns the very
\* record the Create of that id returned.
C8_RoundTrip ==
  \A t \in Threads :
    (/\ AtEnd(t)
     /\ op[t].kind = "get"
     /\ res[t].status = StatusOK
     /\ PathID(t) \notin touched)
      => /\ PathID(t) \in DOMAIN createResp
         /\ res[t].todo = createResp[PathID(t)]

\* GetByID(1) succeeds after another record was created.
C8_Witness ==
  \E t \in Threads :
    /\ AtEnd(t)
    /\ op[t].kind = "get"
    /\ res[t].status = StatusOK
    /\ PathID(t) = 1
    /\ 1 \notin touched
    /\ 2 \in DOMAIN createResp

\* C9: what a reader returns is the committed content of the store at the
\* moment the reader took the lock: whole records, and for ListAll all of them.
C9_Snapshot ==
  \A t \in Threads :
    AtEnd(t) /\ res[t].status = StatusOK =>
      /\ op[t].kind = "list" => res[t].list = Values(pre[t].todos)
      /\ op[t].kind = "get" =>
           /\ PathID(t) \in DOMAIN pre[t].todos
           /\ res[t].todo = pre[t].todos[PathID(t)]

\* A reader returns a record while an Update call of another thread is in
\* flight, waiting for the lock.
C9_Witness ==
  \E t, u \in Threads :
    /\ t # u
    /\ AtEnd(t)
    /\ op[t].kind \in {"list", "get"}
    /\ res[t].status = StatusOK
    /\ pre[t].todos # EmptyMap
    /\ op[u].kind = "update"
    /\ pc[u] \in {"lock", "wlock"}

\* C10: every call leaves the store and returns the response that the same
\* call, run alone on the store committed when it took the lock, leaves and
\* returns; and each commit is the next call's starting store. The calls are
\* thus serial in the order in which they hold the lock.
C10_Serializable ==
  /\ \A t \in Threads :
       AtEnd(t) =>
         [store |-> Store, res |-> res[t]] =
           Serial(variant, op[t].kind, op[t].path, op[t].body, pre[t], loc[t].t)
  /\ writers = {} => committed = Store

\* An Update has succeeded while another thread's call waits for the lock.
C10_Witness ==
  \E t, u \in Threads :
    /\ t # u
    /\ AtEnd(t)
    /\ op[t].kind = "update"
    /\ res[t].status = StatusOK
    /\ pc[u] \in {"lock", "wlock", "rlock"}

\* The labels of a handler between its Lock / RLock and its deferred unlock.
Inside ==
  {"list1", "list2", "create1", "create2", "create3", "get1", "get2",
   "update1", "update2", "update3", "update4", "update5",
   "delete1", "delete2", "unlock", "runlock"}

Holds(t) == t \in writers \cup readers

\* A call takes the lock at most once, holds it exactly from its Lock / RLock
\* to its deferred unlock, on the way to every response, and so never holds it
\* once it has returned or while it waits to take it.
LockDiscipline ==
  \A t \in Threads :
    /\ acquired[t] <= 1
    /\ Holds(t) <=> pc[t] \in Inside
    /\ Holds(t) => acquired[t] = 1
    /\ pc[t] = "ret" => ~Holds(t)

\* While a call is in progress some handler has a step to take.
NoDeadlock ==
  (\E t \in Threads : pc[t] # "idle") =>
    ENABLED (\E t \in Threads : Compute(t) \/ Receive(t))

IssuedIDs == {issued[i] : i \in 1..Len(issued)}

\* A response written by the code that holds the lock to a GetByID, Update or
\* Delete whose {id} was parsed.
RepliesInside(t) ==
  /\ Replies(t)
  /\ pc[t] \in Inside
  /\ op'[t].kind \in {"get", "update", "delete"}
  /\ PathOK(t)'

\* C12: the store holds exactly the ids that were created and not deleted,
\* whatever else was created, updated or deleted; a GetByID of such an id
\* succeeds with that record; and once Delete(i) has succeeded every later
\* GetByID(i), Update(i) and Delete(i) answers NotFound.
C12_Lifecycle ==
  /\ [](writers = {} => DOMAIN todos = IssuedIDs \ deleted)
  /\ [][\A t \in Threads :
         RepliesInside(t) =>
           /\ PathID(t)' \in deleted => res'[t].status = StatusNotFound
           /\ (op'[t].kind = "get" /\ PathID(t)' \in IssuedIDs \ deleted)
                => /\ res'[t].status = StatusOK
                   /\ res'[t].todo.id = PathID(t)']_vars

\* An Update or a second Delete of an id that was created and deleted has
\* been answered 404.
C12_Witness ==
  \E t \in Threads :
    /\ AtEnd(t)
    /\ op[t].kind \in {"update", "delete"}
    /\ PathOK(t)
    /\ PathID(t) \in IssuedIDs \cap deleted
    /\ res[t].status = StatusNotFound

\* The bodies that differ from b at most in the id and the timestamps their
\* sender supplied.
Lookalikes(b) ==
  {[b EXCEPT !.todo.id = i, !.todo.createdAt = c, !.todo.updatedAt = u] :
     i \in {0, JunkID}, c \in {ZeroTime, JunkTime}, u \in {ZeroTime, JunkTime}}

\* C13: the record a Create stores and returns is made of the counter, the
\* clock and the title and completed of the body, and of nothing else: the
\* same call made with any body that differs only in the id and timestamps
\* its sender supplied, on the same store at the same time, stores and returns
\* the same record.
C13_ServerAssigned ==
  \A t \in Threads :
    (AtEnd(t) /\ Created(t)) =>
      LET made == Todo(pre[t].nextID, op[t].body.todo.title, op[t].body.todo.completed,
                       loc[t].t, IF variant = "gin" THEN loc[t].t ELSE ZeroTime)
      IN  /\ res[t].todo = made
          /\ made.id \in DOMAIN todos
          /\ todos[made.id] = made
          /\ \A b \in Lookalikes(op[t].body) :
               Serial(variant, "create", op[t].path, b, pre[t], loc[t].t) =
                 [store |-> Store, res |-> res[t]]

\* A Create whose body carried a foreign id and foreign timestamps has been
\* answered 201, after an earlier Create.
C13_Witness ==
  \E t \in Threads :
    /\ AtEnd(t) /\ Created(t)
    /\ op[t].body.todo.id = JunkID
    /\ op[t].body.todo.createdAt = JunkTime
    /\ op[t].body.todo.updatedAt = JunkTime
    /\ pre[t].nextID > FirstID

\* A decimal integer numeral, with or without a sign, and the integer it names
\* (every integer of ten digits or more stands for one that is no key).
Signed(s) == Len(s) > 0 /\ s[1] \in {"+", "-"}

Magnitude(s) == IF Signed(s) THEN Tail(s) ELSE s

IsInteger(s) == AllDigits(Magnitude(s))

IntValue(s) ==
  IF Signed(s) /\ s[1] = "-" THEN 0 - Value(Magnitude(s)) ELSE Value(Magnitude(s))

\* The integers each variant takes for an id: mux, those of the int type
\* (64 bits); gin, the unsigned numerals below 2^32.
InRange(v, s) ==
  IF v = "mux"
  THEN IsInteger(s) /\
       AtMost(Magnitude(s), IF Signed(s) /\ s[1] = "-" THEN MinInt64 ELSE MaxInt64)
  ELSE AllDigits(s) /\ AtMost(s, MaxUint32)

\* Thread t has written its response to a GetByID, Update or Delete.
Answered(t) ==
  /\ res[t] # NoRes
  /\ op[t].path # <<>>
  /\ op[t].kind \in {"get", "update", "delete"}

\* The body of thread t's Update is not what its response is about: it is
\* well-formed with a title, or (mux) the handler answered before reading it.
ValidBody(t) ==
  op[t].kind = "update" =>
    \/ op[t].body.valid /\ op[t].body.todo.title # ""
    \/ variant = "mux" /\ ~(PathOK(t) /\ PathID(t) \in DOMAIN Before(t).todos)

\* C14 as stated: the response is 400 only when the path id is no integer, and
\* 404 whenever it is an integer that names no stored record, in both
\* variants.
C14_IntegerIDs ==
  \A t \in Threads :
    (Answered(t) /\ ValidBody(t)) =>
      /\ res[t].status = StatusBadRequest => ~IsInteger(op[t].path)
      /\ (IsInteger(op[t].path) /\ IntValue(op[t].path) \notin DOMAIN Before(t).todos)
           => res[t].status = StatusNotFound

\* C14 as amended: the response is 400 exactly when the path id is not an
\* integer the variant takes for an id, and 404 whenever it is one that names
\* no stored record.
C14_ParsedIDs ==
  \A t \in Threads :
    (Answered(t) /\ ValidBody(t)) =>
      /\ res[t].status = StatusBadRequest <=> ~InRange(variant, op[t].path)
      /\ (InRange(variant, op[t].path) /\ IntValue(op[t].path) \notin DOMAIN Before(t).todos)
           => res[t].status = StatusNotFound

\* With a record in the store, the gin variant has answered 400 to the id -1
\* and 404 to the id 0.
C14_Witness ==
  \E t, u \in Threads :
    /\ variant = "gin"
    /\ committed.todos # EmptyMap
    /\ Answered(t) /\ op[t].path = <<"-", "1">> /\ res[t].status = StatusBadRequest
    /\ Answered(u) /\ op[u].path = <<"0">> /\ res[u].status = StatusNotFound

\* Thread t's call is an Update that has succeeded.
Updated(t) == op[t].kind = "update" /\ res[t].status = StatusOK

\* C15: in the gin variant a Create stores and returns updatedAt = createdAt,
\* the time it read; a successful Update stores and returns as updatedAt the
\* time it read; no call changes the updatedAt of any other record, and a
\* failed Update, a GetByID, a ListAll and a Delete change none; so every
\* stored record has updatedAt >= createdAt.
C15_UpdatedAt ==
  variant = "gin" =>
    /\ \A i \in DOMAIN todos : todos[i].updatedAt >= todos[i].createdAt
    /\ \A t \in Threads :
         AtEnd(t) =>
           /\ Created(t) =>
                /\ res[t].todo.updatedAt = res[t].todo.createdAt
                /\ res[t].todo.updatedAt = loc[t].t
                /\ loc[t].t = now
                /\ res[t].todo.id \in DOMAIN todos
                /\ todos[res[t].todo.id].updatedAt = loc[t].t
           /\ Updated(t) =>
                /\ res[t].todo.updatedAt = loc[t].t
                /\ loc[t].t = now
                /\ PathID(t) \in DOMAIN todos
                /\ todos[PathID(t)].updatedAt = loc[t].t
           /\ \A i \in DOMAIN pre[t].todos \cap DOMAIN todos :
                ~(Updated(t) /\ i = PathID(t))
                  => todos[i].updatedAt = pre[t].todos[i].updatedAt

\* An Update has succeeded at a later time than its record was created.
C15_Witness ==
  \E t \in Threads :
    /\ variant = "gin"
    /\ AtEnd(t) /\ Updated(t)
    /\ res[t].todo.updatedAt > res[t].todo.createdAt

\* Thread t's next step is to read its request body: it waits for its client.
AwaitsBody(t) == ENABLED Receive(t)

\* C16 as stated: no call waits for its client while it holds the lock, so
\* that, whichever clients stop sending, every call that is not itself
\* waiting for its body goes on to return (or to read its own body).
C16_NoWaitUnderLock ==
  /\ [](\A t \in Threads : Holds(t) => ~AwaitsBody(t))
  /\ \A t \in Threads :
       (pc[t] # "idle" /\ ~AwaitsBody(t)) ~> (pc[t] = "idle" \/ AwaitsBody(t))

\* Thread t's call is a Delete that has succeeded.
Removed(t) == op[t].kind = "delete" /\ res[t].status = StatusNoContent

\* Record i is in the store as it was when thread t took the lock.
Kept(t, i) == i \in DOMAIN todos /\ todos[i] = pre[t].todos[i]

\* C17: a successful Update(i) or Delete(i) leaves every record but i, the
\* set of the other ids and the counter as they were; a successful Create
\* leaves every record that existed as it was; GetByID and ListAll leave the
\* records and the counter as they were.
C17_Frame ==
  \A t \in Threads :
    AtEnd(t) =>
      /\ (Updated(t) \/ Removed(t)) =>
           /\ \A i \in DOMAIN pre[t].todos \ {PathID(t)} : Kept(t, i)
           /\ DOMAIN todos \ {PathID(t)} = DOMAIN pre[t].todos \ {PathID(t)}
           /\ nextID = pre[t].nextID
      /\ Created(t) => \A i \in DOMAIN pre[t].todos : Kept(t, i)
      /\ op[t].kind \in {"get", "list"} => Store = pre[t]

\* An Update has succeeded on a store that holds another record as well.
C17_Witness ==
  \E t \in Threads :
    /\ AtEnd(t) /\ Updated(t)
    /\ DOMAIN pre[t].todos \ {PathID(t)} # {}

\* Each record is stored under its own id.
KeyIsID == \A k \in DOMAIN todos : todos[k].id = k

\* The counter is the first id plus the number of Create calls that have
\* advanced it.
CounterCounts == nextID = FirstID + Len(issued)

\* C18 as stated: in every reachable state each record is stored under its
\* own id, every key lies in 1..nextID-1, and nextID is 1 plus the number of
\* successful Create calls.
C18_EveryState ==
  /\ KeyIsID
  /\ DOMAIN todos \subseteq FirstID..(nextID - 1)
  /\ CounterCounts

\* C18 as amended: the same, except that while a Create is between storing
\* its record and advancing the counter, inside the exclusive lock, the key of
\* that record is nextID itself.
C18_StoreShape ==
  /\ KeyIsID
  /\ CounterCounts
  /\ \A k \in DOMAIN todos :
       \/ k \in FirstID..(nextID - 1)
       \/ k = nextID /\ \E t \in writers : pc[t] = "create3" /\ loc[t].id = k
  /\ writers = {} => DOMAIN todos \subseteq FirstID..(nextID - 1)

\* A Create has stored its record and not yet advanced the counter, in a
\* store from which a record has been deleted.
C18_Witness ==
  \E t \in writers :
    /\ pc[t] = "create3"
    /\ nextID \in DOMAIN todos
    /\ deleted # {}

====
